---- MODULE Spec2Model ----
(***************************************************************************)
(* PlanetHeatConductionSimulator (app/Planet): backward Euler time         *)
(* marching with a Picard iteration per step, a local or a distributed     *)
(* (collective) linear solve, and snapshots put on an output queue.        *)
(*                                                                         *)
(* Every participant of a distributed run executes run() on its own copy   *)
(* of the simulator, so the simulator's fields are functions of the        *)
(* participant's rank; a local run has the single rank 0.                  *)
(*                                                                         *)
(* A finite element function is a vector of NDof components.  Components   *)
(* are integers counting units of 1/Scale, so the literal 1.0 of the       *)
(* source is Scale units.  The value nan is the component NaNv.            *)
(***************************************************************************)
EXTENDS Integers, Sequences, FiniteSets, TLC

\* ------------------------------------------------------------- bounds
MaxNT == 2          \* longest timeline
MaxStep == 2        \* largest output stride args.step
MaxPicard == 2      \* largest args.npicard
MaxP == 2           \* most participants of a distributed run
NDof == 1           \* degrees of freedom of the space
MaxVal == 1         \* largest component of a field, in units of 1/Scale
Scale == 2          \* units per 1.0
Tss == 2            \* pde.options['Tss'], the reference temperature
NQ == 1             \* quadrature points per boundary face
NF == 2             \* exterior boundary faces
Dt == 2             \* timeline.current_time_step_length(), in matrix units

\* ------------------------------------------------------ program constants
NameWidth == 10     \* str(i).zfill(10)
InitError == 1 * Scale   \* error = 1.0

VARIABLES
    args,       \* args.accuracy, args.npicard, args.step
    ctx,        \* TRUE iff run(ctx=...) is given a distributed context
    hasqueue,   \* TRUE iff run(queue=...) is given a consumer
    P,          \* number of participants (1 for a local run)
    theta,      \* pde.options['theta']/pde.options['Tss'], the initial value
    timeline,   \* timeline[p] = [current, NT], the UniformTimeLine
    uh0,        \* self.uh0: the current level
    uh1,        \* self.uh1: the next level
    uh,         \* self.uh: the trial value
    x,          \* picard_iteration's local x: [st, val]
    k,          \* picard_iteration's local k
    error,      \* picard_iteration's local error
    i,          \* run's local i
    pc,         \* position of each participant in run()
    queue,      \* queue[p]: the items put so far, oldest first
    nodedata,   \* mesh.nodedata['uh']
    warned,     \* line 142 printed its warning in the present picard_iteration
    sys,        \* the system (R, b) assembled last
    sol,        \* the solution of the system solved last
    sd,         \* pde.options['sd'], the reference sun direction
    rot,        \* <<c, s, d>>: cos(dt) = c/d and sin(dt) = s/d
    normals,    \* normals[q][f]: outward unit normal, <<<<a, b, c>>, d>> = (a,b,c)/d
    mu,         \* mu[p]: the weights init_mu returned last
    S,          \* self.S, the stiffness matrix (its diagonal)
    M,          \* self.M, the mass matrix (its diagonal)
    consumer    \* consumer[p] = [n, uh]: items taken, and the field read last

vars == <<args, ctx, hasqueue, P, theta, timeline, uh0, uh1, uh, x, k, error, i,
          pc, queue, nodedata, warned, sys, sol, sd, rot, normals, mu, S, M,
          consumer>>

simvarsNoPc == <<args, ctx, hasqueue, P, theta, timeline, uh0, uh1, uh, x, k, error,
                 i, queue, nodedata, warned, sys, sol, S, M, consumer>>

Procs == 0 .. (P - 1)
Dofs == 1 .. NDof
NaNv == -1
Fields == [Dofs -> 0 .. MaxVal]
NaNField == [d \in Dofs |-> NaNv]
ZeroField == [d \in Dofs |-> 0]
IsNaN(f) == \E d \in Dofs : f[d] = NaNv

Abs(a) == IF a < 0 THEN -a ELSE a
MaxOf(ns) == CHOOSE m \in ns : \A n \in ns : n <= m

\* ------------------------------------------------------------ timeline
\* UniformTimeLine(0, T, NT): T0 = 0, levels counted in units of dt.
stop(tl) == tl.current >= tl.NT
advance(tl) == [tl EXCEPT !.current = tl.current + 1]
next_time_level(tl) == tl.current + 1

\* -------------------------------------------------------- illumination
\* Integer square root, by bisection on lo*lo <= n < hi*hi.
RECURSIVE Bisect(_, _, _)
Bisect(n, lo, hi) ==
    IF hi - lo <= 1 THEN lo
    ELSE LET mid == (lo + hi) \div 2
         IN  IF mid <= n \div mid THEN Bisect(n, mid, hi) ELSE Bisect(n, lo, mid)
Sqrt(n) == Bisect(n, 0, n + 1)

Dot(a, b) == a[1] * b[1] + a[2] * b[2] + a[3] * b[3]

\* <<c, s, d>> with cos(n*dt) = c/d and sin(n*dt) = s/d, from the angle sum.
RECURSIVE CosSin(_, _)
CosSin(r, n) ==
    IF n = 0 THEN <<1, 0, 1>>
    ELSE LET a == CosSin(r, n - 1)
         IN  <<a[1] * r[1] - a[2] * r[2], a[2] * r[1] + a[1] * r[2], a[3] * r[3]>>

\* Z @ sd for Z the rotation about z by -t: the numerators over the
\* denominator a[3], with cos(-t) = a[1]/a[3] and sin(-t) = -a[2]/a[3].
Rotate(a, v) ==
    [num |-> << a[1] * v[1] + a[2] * v[2],
                (-a[2]) * v[1] + a[1] * v[2],
                a[3] * v[3] >>,
     den |-> a[3]]

\* n/np.sqrt(np.dot(n, n)): the norm of num/den is Sqrt(num.num)/den, so
\* the quotient is num/Sqrt(num.num).
Normalize(n) == [num |-> n.num, den |-> Sqrt(Dot(n.num, n.num))]

\* np.dot(m, n) for one unit normal m = <<vector, denominator>>.
DotMN(m, n) == [num |-> Dot(m[1], n.num), den |-> m[2] * n.den]

ClampNoop(w) == w
\* mu[mu<0] = 0
Clamp(w) == IF w.num < 0 THEN [num |-> 0, den |-> w.den] ELSE w

\* The sun direction at level t (in units of dt), rotated and normalized.
SunDirection(r, s, t) == Normalize(Rotate(CosSin(r, t), s))

init_mu_current_level(tl, r, s, m) ==
    LET n == SunDirection(r, s, tl.current)
    IN  [q \in 1 .. NQ |-> [f \in 1 .. NF |-> Clamp(DotMN(m[q][f], n))]]
\* Lines 36-52: t = timeline.next_time_level(); the weights at that level.
init_mu(tl, r, s, m) ==
    LET t == next_time_level(tl)
        n == SunDirection(r, s, t)
    IN  [q \in 1 .. NQ |-> [f \in 1 .. NF |-> Clamp(DotMN(m[q][f], n))]]

\* ------------------------------------------------------------ the fields
\* np.max(np.abs(a - b)); nan when a component is nan.
MaxAbsDiff(a, b) ==
    IF IsNaN(a) \/ IsNaN(b) THEN NaNv
    ELSE MaxOf({Abs(a[d] - b[d]) : d \in Dofs})

\* error > e; a comparison with nan is False.
Greater(err, e) == err # NaNv /\ err > e

\* T = uh0*Tss
update_mesh_data(u0) ==
    [d \in Dofs |-> IF u0[d] = NaNv THEN NaNv ELSE u0[d] * Tss]

\* str(i).zfill(10): the ten decimal digits of i, most significant first.
fname(n) == [d \in 1 .. NameWidth |-> (n \div (10 ^ (NameWidth - d))) % 10]

\* data = {'name': fname, 'mesh': self.mesh}, the mesh holding nodedata['uh'].
Snapshot(n, T) == [kind |-> "data", name |-> fname(n), uh |-> T]
\* The literal -1 put at line 202.
Sentinel == [kind |-> "sentinel", name |-> <<>>, uh |-> <<>>]

StrideHitSkipFirst(n, s) == n > 0 /\ n % s = 0
\* i % args.step == 0
StrideHit(n, s) == n % s = 0

\* R, b = nolinear_robin_boundary(); b*dt + M@uh0; R*dt + M.  The system is
\* named by what it is assembled from: the trial value the reaction matrix
\* is linearized at, the current level of the right-hand side, the weights
\* and the time level of the flux vector.
\* Matrices are named by their diagonal, and <<>> is a matrix with nan
\* entries.  val **= 3; val *= kappa with kappa = -1.0/Phi, in units where
\* Phi = 1: the entry of the reaction matrix at a trial value v.
Reaction(v) == 0 - (v * v * v)

nolinear_robin_boundary_on_S(u) ==
    [obj |-> "S",
     val |-> IF IsNaN(u) THEN <<>> ELSE [d \in Dofs |-> Reaction(u[d]) + S[d]]]
\* Lines 74-78 and 94-99: R is built from self.uh and 'return R+self.S'
\* hands back the sum as a new matrix object, named "R" here.
nolinear_robin_boundary(u) ==
    [obj |-> "R",
     val |-> IF IsNaN(u) THEN <<>> ELSE [d \in Dofs |-> Reaction(u[d]) + S[d]]]

\* Lines 123-124: R *= dt; R += M, in place on the object r names.
InPlace(r) ==
    [obj |-> r.obj,
     val |-> IF r.val = <<>> THEN <<>> ELSE [d \in Dofs |-> r.val[d] * Dt + M[d]]]

\* The matrix stored under the name obj after the in-place operations on r:
\* they reach it only when r is that very object.
Stored(obj, old, r) == IF r.obj = obj THEN r.val ELSE old

\* Line 122: M@uh0[:]
MassTimes(u0) == IF IsNaN(u0) THEN <<>> ELSE [d \in Dofs |-> M[d] * u0[d]]

AssembleFromCurrent(u, u0, tl, w) ==
    [lin |-> u0, u0 |-> u0, t |-> next_time_level(tl), mu |-> w,
     A |-> InPlace(nolinear_robin_boundary(u0)).val, Mu0 |-> MassTimes(u0)]
\* A is the matrix R after lines 120-124 and Mu0 the M@uh0 part of b; the
\* dt*b part of the right-hand side is given by mu and t.
Assemble(u, u0, tl, w) ==
    [lin |-> u, u0 |-> u0, t |-> next_time_level(tl), mu |-> w,
     A |-> InPlace(nolinear_robin_boundary(u)).val, Mu0 |-> MassTimes(u0)]

\* spsolve(R, b): any vector, and nan everywhere for a singular matrix or
\* a system with nan entries.
spsolve(s) ==
    IF IsNaN(s.lin) \/ IsNaN(s.u0) THEN {NaNField} ELSE Fields \cup {NaNField}

\* The collective solve of the distributed context on the coordinator's system.
mumps(s) == Fields

Unbound == [st |-> "unbound", val |-> ZeroField]
NoSys == [lin |-> ZeroField, u0 |-> ZeroField, t |-> 0,
          mu |-> [q \in 1 .. NQ |-> [f \in 1 .. NF |-> [num |-> 0, den |-> 1]]],
          A |-> <<>>, Mu0 |-> <<>>]

\* ----------------------------------------------------------- the state
\* accuracy: 0, a tolerance between 0 and 1.0, and the 1.0 the error starts from.
ArgSet == [accuracy : {0, 1, InitError}, npicard : 1 .. MaxPicard, step : 1 .. MaxStep]

\* One fixed geometry for the runs of the simulator.
Sun0 == <<3, 4, 0>>
Rot0 == <<0, 1, 1>>
Normals0 == [q \in 1 .. NQ |-> [f \in 1 .. NF |->
                IF f % 2 = 1 THEN <<<<1, 0, 0>>, 1>> ELSE <<<<-4, 3, 0>>, 5>>]]
NoMu == NoSys.mu

\* The sun directions, rotation steps and unit normals of the illumination runs.
Suns == {<<1, 0, 0>>, <<0, 2, 0>>, <<3, 4, 0>>, <<-2, 1, 2>>}
Rots == {<<0, 1, 1>>, <<3, 4, 5>>}
UnitNormals == {<<<<1, 0, 0>>, 1>>, <<<<-4, -3, 0>>, 5>>, <<<<2, -1, -2>>, 3>>}

\* The state __init__ leaves, for np participants.
\* self.S = space.stiff_matrix(), self.M = space.mass_matrix(): the diagonals
\* of two fixed matrices.
stiff_matrix == [d \in Dofs |-> 1]
mass_matrix == [d \in Dofs |-> 2]

\* The consumer of run()'s queue before it has taken anything.
NotRead == [n |-> 0, uh |-> <<>>]

Constructed(np, argset, nts) ==
    /\ P = np
    /\ args \in argset
    /\ hasqueue \in BOOLEAN
    /\ theta \in {0, MaxVal}
    /\ \E nt \in nts :
         timeline = [p \in 0 .. (np - 1) |-> [current |-> 0, NT |-> nt]]
    /\ uh0 = [p \in 0 .. (np - 1) |-> [d \in Dofs |-> theta]]
    /\ uh1 = [p \in 0 .. (np - 1) |-> ZeroField]
    /\ uh = uh0
    /\ x = [p \in 0 .. (np - 1) |-> Unbound]
    /\ k = [p \in 0 .. (np - 1) |-> 0]
    /\ error = [p \in 0 .. (np - 1) |-> 0]
    /\ i = [p \in 0 .. (np - 1) |-> 0]
    /\ pc = [p \in 0 .. (np - 1) |-> "run"]
    /\ queue = [p \in 0 .. (np - 1) |-> <<>>]
    /\ nodedata = [p \in 0 .. (np - 1) |-> ZeroField]
    /\ warned = [p \in 0 .. (np - 1) |-> FALSE]
    /\ sys = [p \in 0 .. (np - 1) |-> NoSys]
    /\ sol = [p \in 0 .. (np - 1) |-> ZeroField]
    /\ mu = [p \in 0 .. (np - 1) |-> NoMu]
    /\ S = stiff_matrix
    /\ M = mass_matrix
    /\ consumer = [p \in 0 .. (np - 1) |-> NotRead]

Geometry0 == sd = Sun0 /\ rot = Rot0 /\ normals = Normals0

Init == ctx = FALSE /\ Constructed(1, ArgSet, 0 .. MaxNT) /\ Geometry0

InitDist ==
    /\ ctx = TRUE
    /\ \E np \in 1 .. MaxP : Constructed(np, ArgSet, 0 .. MaxNT)
    /\ Geometry0

\* ---------------------------------------------------------------- run()
Put(p, items) == [queue EXCEPT ![p] = queue[p] \o items]

\* Lines 170-178: the snapshot of the initial state.
RunStart(p) ==
    /\ pc[p] = "run"
    /\ IF hasqueue
       THEN /\ i' = [i EXCEPT ![p] = timeline[p].current]
            /\ nodedata' = [nodedata EXCEPT ![p] = update_mesh_data(uh0[p])]
            /\ queue' = Put(p, <<Snapshot(timeline[p].current, update_mesh_data(uh0[p]))>>)
       ELSE UNCHANGED <<i, nodedata, queue>>
    /\ pc' = [pc EXCEPT ![p] = "loop"]
    /\ UNCHANGED <<S, M, consumer, args, ctx, hasqueue, P, theta, timeline, uh0, uh1, uh, x, k,
                   error, warned, sys, sol, sd, rot, normals, mu>>

\* Lines 180-182: while not timeline.stop(): i = timeline.current
LoopTest(p) ==
    /\ pc[p] = "loop"
    /\ IF ~stop(timeline[p])
       THEN /\ i' = [i EXCEPT ![p] = timeline[p].current]
            /\ pc' = [pc EXCEPT ![p] = "picard"]
       ELSE /\ pc' = [pc EXCEPT ![p] = "final"]
            /\ UNCHANGED i
    /\ UNCHANGED <<S, M, consumer, args, ctx, hasqueue, P, theta, timeline, uh0, uh1, uh, x, k,
                   error, queue, nodedata, warned, sys, sol, sd, rot, normals, mu>>

PicardEntryNoSeed(p) ==
    /\ pc[p] = "picard"
    /\ k' = [k EXCEPT ![p] = 0]
    /\ error' = [error EXCEPT ![p] = InitError]
    /\ x' = [x EXCEPT ![p] = Unbound]
    /\ warned' = [warned EXCEPT ![p] = FALSE]
    /\ pc' = [pc EXCEPT ![p] = "while"]
    /\ UNCHANGED <<S, M, consumer, args, ctx, hasqueue, P, theta, timeline, uh0, uh1, uh, i, queue,
                   nodedata, sys, sol, sd, rot, normals, mu>>

\* Lines 104-118: picard_iteration is entered; uh1[:] = uh0, k = 0, error = 1.0.
PicardEntry(p) ==
    /\ pc[p] = "picard"
    /\ uh1' = [uh1 EXCEPT ![p] = uh0[p]]
    /\ k' = [k EXCEPT ![p] = 0]
    /\ error' = [error EXCEPT ![p] = InitError]
    /\ x' = [x EXCEPT ![p] = Unbound]
    /\ warned' = [warned EXCEPT ![p] = FALSE]
    /\ pc' = [pc EXCEPT ![p] = "while"]
    /\ UNCHANGED <<S, M, consumer, args, ctx, hasqueue, P, theta, timeline, uh0, uh, i, queue,
                   nodedata, sys, sol, sd, rot, normals, mu>>

\* Line 119: while error > e
WhileTest(p) ==
    /\ pc[p] = "while"
    /\ pc' = [pc EXCEPT ![p] =
                IF Greater(error[p], args.accuracy) THEN "body" ELSE "commit"]
    /\ UNCHANGED <<S, M, consumer, args, ctx, hasqueue, P, theta, timeline, uh0, uh1, uh, x, k,
                   error, i, queue, nodedata, warned, sys, sol, sd, rot, normals, mu>>

\* Lines 120-132: the system is assembled from uh, uh0 and the next time
\* level; without a context it is solved here (line 127), with one the
\* coordinator registers it (lines 129-132).
Body(p) ==
    /\ pc[p] = "body"
    /\ LET w == init_mu(timeline[p], rot, sd, normals)
           s == Assemble(uh[p], uh0[p], timeline[p], w)
           r == InPlace(nolinear_robin_boundary(uh[p]))
       IN  /\ mu' = [mu EXCEPT ![p] = w]
           /\ sys' = [sys EXCEPT ![p] = s]
           /\ S' = Stored("S", S, r)
           /\ M' = Stored("M", M, r)
           /\ IF ~ctx
              THEN /\ \E v \in spsolve(s) :
                        /\ uh' = [uh EXCEPT ![p] = v]
                        /\ sol' = [sol EXCEPT ![p] = v]
                   /\ pc' = [pc EXCEPT ![p] = "post"]
                   /\ UNCHANGED x
              ELSE /\ x' = IF p = 0
                           THEN [x EXCEPT ![p] = [st |-> "rhs", val |-> ZeroField]]
                           ELSE x
                   /\ pc' = [pc EXCEPT ![p] = "ctxrun"]
                   /\ UNCHANGED <<uh, sol>>
    /\ UNCHANGED <<consumer, args, ctx, hasqueue, P, theta, timeline, uh0, uh1, k, error, i,
                   queue, nodedata, warned, sd, rot, normals>>

\* Line 133: ctx.run(job=6), entered by all participants together; the
\* coordinator's right-hand side buffer x then holds the solution.
CtxRun ==
    /\ ctx
    /\ \A p \in Procs : pc[p] = "ctxrun"
    /\ \E v \in mumps(sys[0]) :
         /\ x' = [x EXCEPT ![0] = [st |-> "sol", val |-> v]]
         /\ sol' = [p \in Procs |-> v]
    /\ pc' = [p \in Procs |-> "assign"]
    /\ UNCHANGED <<S, M, consumer, args, ctx, hasqueue, P, theta, timeline, uh0, uh1, uh, k, error,
                   i, queue, nodedata, warned, sys, sd, rot, normals, mu>>

\* Line 134: uh[:] = x; x is a local that only the coordinator has bound.
Assign(p) ==
    /\ pc[p] = "assign"
    /\ IF x[p].st = "unbound"
       THEN /\ pc' = [pc EXCEPT ![p] = "UnboundLocalError"]
            /\ UNCHANGED uh
       ELSE /\ uh' = [uh EXCEPT ![p] = x[p].val]
            /\ pc' = [pc EXCEPT ![p] = "post"]
    /\ UNCHANGED <<S, M, consumer, args, ctx, hasqueue, P, theta, timeline, uh0, uh1, x, k, error,
                   i, queue, nodedata, warned, sys, sol, sd, rot, normals, mu>>

PostKeepOnCap(p) ==
    /\ pc[p] = "post"
    /\ error' = [error EXCEPT ![p] = MaxAbsDiff(uh[p], uh1[p])]
    /\ k' = [k EXCEPT ![p] = k[p] + 1]
    /\ IF k[p] + 1 >= args.npicard
       THEN /\ warned' = [warned EXCEPT ![p] = TRUE]
            /\ pc' = [pc EXCEPT ![p] = "commit"]
            /\ UNCHANGED uh1
       ELSE /\ uh1' = [uh1 EXCEPT ![p] = uh[p]]
            /\ pc' = [pc EXCEPT ![p] = "while"]
            /\ UNCHANGED warned
    /\ UNCHANGED <<S, M, consumer, args, ctx, hasqueue, P, theta, timeline, uh0, uh, x, i, queue,
                   nodedata, sys, sol, sd, rot, normals, mu>>

\* Lines 136-143: the error, uh1[:] = uh, k += 1 and the iteration cap.
Post(p) ==
    /\ pc[p] = "post"
    /\ error' = [error EXCEPT ![p] = MaxAbsDiff(uh[p], uh1[p])]
    /\ uh1' = [uh1 EXCEPT ![p] = uh[p]]
    /\ k' = [k EXCEPT ![p] = k[p] + 1]
    /\ IF k[p] + 1 >= args.npicard
       THEN /\ warned' = [warned EXCEPT ![p] = TRUE]
            /\ pc' = [pc EXCEPT ![p] = "commit"]
       ELSE /\ pc' = [pc EXCEPT ![p] = "while"]
            /\ UNCHANGED warned
    /\ UNCHANGED <<S, M, consumer, args, ctx, hasqueue, P, theta, timeline, uh0, uh, x, i, queue,
                   nodedata, sys, sol, sd, rot, normals, mu>>

\* Lines 184-193: uh0[:] = uh1, timeline.advance() and the snapshot of a
\* step whose index i is a multiple of the stride.
Commit(p) ==
    /\ pc[p] = "commit"
    /\ uh0' = [uh0 EXCEPT ![p] = uh1[p]]
    /\ timeline' = [timeline EXCEPT ![p] = advance(timeline[p])]
    /\ IF StrideHit(i[p], args.step) /\ hasqueue
       THEN /\ nodedata' = [nodedata EXCEPT ![p] = update_mesh_data(uh1[p])]
            /\ queue' = Put(p, <<Snapshot(i[p], update_mesh_data(uh1[p]))>>)
       ELSE UNCHANGED <<nodedata, queue>>
    /\ pc' = [pc EXCEPT ![p] = "loop"]
    /\ UNCHANGED <<S, M, consumer, args, ctx, hasqueue, P, theta, uh1, uh, x, k, error, i, warned,
                   sys, sol, sd, rot, normals, mu>>

FinalSentinelFirst(p) ==
    /\ pc[p] = "final"
    /\ IF hasqueue
       THEN /\ i' = [i EXCEPT ![p] = timeline[p].current]
            /\ nodedata' = [nodedata EXCEPT ![p] = update_mesh_data(uh0[p])]
            /\ queue' = Put(p, <<Sentinel,
                       Snapshot(timeline[p].current, update_mesh_data(uh0[p]))>>)
       ELSE UNCHANGED <<i, nodedata, queue>>
    /\ pc' = [pc EXCEPT ![p] = "done"]
    /\ UNCHANGED <<S, M, consumer, args, ctx, hasqueue, P, theta, timeline, uh0, uh1, uh, x, k,
                   error, warned, sys, sol, sd, rot, normals, mu>>

\* Lines 195-202: the snapshot of the last level when the stride does not
\* divide the final index, then the end signal.
Final(p) ==
    /\ pc[p] = "final"
    /\ IF hasqueue
       THEN /\ i' = [i EXCEPT ![p] = timeline[p].current]
            /\ IF ~StrideHit(timeline[p].current, args.step)
               THEN /\ nodedata' = [nodedata EXCEPT ![p] = update_mesh_data(uh0[p])]
                    /\ queue' = Put(p, <<Snapshot(timeline[p].current,
                                                  update_mesh_data(uh0[p])), Sentinel>>)
               ELSE /\ queue' = Put(p, <<Sentinel>>)
                    /\ UNCHANGED nodedata
       ELSE UNCHANGED <<i, nodedata, queue>>
    /\ pc' = [pc EXCEPT ![p] = "done"]
    /\ UNCHANGED <<S, M, consumer, args, ctx, hasqueue, P, theta, timeline, uh0, uh1, uh, x, k,
                   error, warned, sys, sol, sd, rot, normals, mu>>

Next ==
    \/ \E p \in Procs : RunStart(p)
    \/ \E p \in Procs : LoopTest(p)
    \/ \E p \in Procs : PicardEntry(p)
    \/ \E p \in Procs : WhileTest(p)
    \/ \E p \in Procs : Body(p)
    \/ \E p \in Procs : Post(p)
    \/ \E p \in Procs : Commit(p)
    \/ \E p \in Procs : Final(p)

Spec == Init /\ [][Next]_vars

NextDist ==
    \/ \E p \in Procs : RunStart(p)
    \/ \E p \in Procs : LoopTest(p)
    \/ \E p \in Procs : PicardEntry(p)
    \/ \E p \in Procs : WhileTest(p)
    \/ \E p \in Procs : Body(p)
    \/ CtxRun
    \/ \E p \in Procs : Assign(p)
    \/ \E p \in Procs : Post(p)
    \/ \E p \in Procs : Commit(p)
    \/ \E p \in Procs : Final(p)

SpecDist == InitDist /\ [][NextDist]_vars

\* ------------------------------------------------- init_mu on its own
\* The illumination over the sun directions, rotation steps, normals and
\* time levels: the timeline is advanced level by level and init_mu is
\* called at each.
InitMu ==
    /\ ctx = FALSE
    /\ Constructed(1, {[accuracy |-> 0, npicard |-> 1, step |-> 1]}, {MaxNT + 1})
    /\ ~hasqueue
    /\ theta = 0
    /\ sd \in Suns
    /\ rot \in Rots
    /\ normals \in [1 .. NQ -> [1 .. NF -> UnitNormals]]

CallInitMu ==
    /\ pc[0] \in {"run", "advanced"}
    /\ mu' = [mu EXCEPT ![0] = init_mu(timeline[0], rot, sd, normals)]
    /\ pc' = [pc EXCEPT ![0] = "mu"]
    /\ UNCHANGED <<simvarsNoPc, sd, rot, normals>>

NextLevel ==
    /\ pc[0] = "mu"
    /\ ~stop(advance(timeline[0]))
    /\ timeline' = [timeline EXCEPT ![0] = advance(timeline[0])]
    /\ pc' = [pc EXCEPT ![0] = "advanced"]
    /\ UNCHANGED <<S, M, consumer, args, ctx, hasqueue, P, theta, uh0, uh1, uh, x, k, error, i,
                   queue, nodedata, warned, sys, sol, sd, rot, normals, mu>>

NextMu == CallInitMu \/ NextLevel

SpecMu == InitMu /\ [][NextMu]_vars

\* ------------------------------------------- run() and its consumer
\* The consumer of the queue takes the oldest item it has not taken yet, at
\* any time after the put.  The payload of a snapshot is
\* {'name': fname, 'mesh': self.mesh}: it holds the simulator's mesh object
\* itself, so the field the consumer reads is mesh.nodedata['uh'] either as
\* it was when the item was put (a queue that copies the payload at once)
\* or as it is when the item is taken (a queue that hands over the object).
Consume(p) ==
    /\ hasqueue
    /\ consumer[p].n < Len(queue[p])
    /\ LET it == queue[p][consumer[p].n + 1]
       IN  \E T \in (IF it.kind = "data" THEN {it.uh, nodedata[p]} ELSE {<<>>}) :
              consumer' = [consumer EXCEPT ![p] = [n |-> @.n + 1, uh |-> T]]
    /\ UNCHANGED <<S, M, args, ctx, hasqueue, P, theta, timeline, uh0, uh1, uh, x,
                   k, error, i, pc, queue, nodedata, warned, sys, sol, sd, rot,
                   normals, mu>>

InitQueue == Init /\ hasqueue

NextQueue ==
    \/ \E p \in Procs : RunStart(p)
    \/ \E p \in Procs : LoopTest(p)
    \/ \E p \in Procs : PicardEntry(p)
    \/ \E p \in Procs : WhileTest(p)
    \/ \E p \in Procs : Body(p)
    \/ \E p \in Procs : Post(p)
    \/ \E p \in Procs : Commit(p)
    \/ \E p \in Procs : Final(p)
    \/ \E p \in Procs : Consume(p)

SpecQueue == InitQueue /\ [][NextQueue]_vars

\* ================================================================ claims
Snapshots(p) == SelectSeq(queue[p], LAMBDA it : it.kind = "data")
Sentinels(p) == SelectSeq(queue[p], LAMBDA it : it.kind = "sentinel")
InitialField == [d \in Dofs |-> theta]
LessEq(err, e) == err # NaNv /\ err <= e

TwoStepScenario ==
    /\ hasqueue
    /\ args.npicard = 1 /\ args.accuracy = 0 /\ args.step = 1
    /\ timeline[0].NT = 2

\* C1, as stated: in the scenario npicard = 1, accuracy = 0, step = 1, NT = 2
\* with a consumer, the finished run has put exactly two snapshots and then
\* the sentinel once, the first snapshot holding the initial field times Tss.
C1_TwoSnapshots ==
    (TwoStepScenario /\ pc[0] = "done") =>
        /\ Len(Snapshots(0)) = 2
        /\ Len(Sentinels(0)) = 1
        /\ queue[0][Len(queue[0])] = Sentinel
        /\ queue[0][1] = Snapshot(0, update_mesh_data(InitialField))

\* C1, amended: in that scenario the finished run has put exactly three
\* snapshots (the initial state and one after each of the two steps) and
\* then the sentinel once; the first snapshot, labelled 0, is put before any
\* step is executed and holds the initial field times Tss.
C1_ThreeSnapshots ==
    TwoStepScenario =>
        /\ (pc[0] = "loop" /\ timeline[0].current = 0) =>
               queue[0] = <<Snapshot(0, update_mesh_data(InitialField))>>
        /\ pc[0] # "run" => queue[0][1] = Snapshot(0, update_mesh_data(InitialField))
        /\ pc[0] = "done" =>
               /\ Len(queue[0]) = 4
               /\ Len(Snapshots(0)) = 3
               /\ Len(Sentinels(0)) = 1
               /\ queue[0][4] = Sentinel

C1_Witness ==
    /\ TwoStepScenario
    /\ pc[0] = "done"
    /\ theta # 0
    /\ Len(Snapshots(0)) = 3

\* C2: with a consumer and NT >= 1, the last snapshot put before the
\* sentinel of a finished run (none of whose solves failed) holds the field
\* after all NT steps, uh0*Tss.
C2_LastSnapshotIsFinalField ==
    \A p \in Procs :
        (hasqueue /\ timeline[p].NT >= 1 /\ pc[p] = "done" /\ ~IsNaN(uh0[p])) =>
            /\ Len(queue[p]) >= 2
            /\ queue[p][Len(queue[p]) - 1].kind = "data"
            /\ queue[p][Len(queue[p]) - 1].uh = update_mesh_data(uh0[p])

\* C3: a Picard step whose last solve succeeded (its error is a number)
\* ends without the 'arrive max iteration' warning exactly when that error
\* is <= accuracy, and prints the warning only with k = npicard and
\* error > accuracy.
C3_WarningOnlyWhenNotConverged ==
    \A p \in Procs :
        (pc[p] = "commit" /\ k[p] > 0 /\ error[p] # NaNv) =>
            /\ ~warned[p] <=> LessEq(error[p], args.accuracy)
            /\ warned[p] => (k[p] = args.npicard /\ Greater(error[p], args.accuracy))

\* C4: in a distributed run no participant fails at the assignment after
\* the collective solve, and each proceeds with uh holding the solution of
\* the assembled system.
C4_EveryParticipantHoldsSolution ==
    \A p \in Procs :
        /\ pc[p] # "UnboundLocalError"
        /\ pc[p] = "post" => uh[p] = sol[p]

\* C5: with npicard = 1 and an accuracy > 0 (and below the 1.0 the error
\* starts from), every time step makes exactly one solve, and when that
\* solve succeeded the warning of the cap is printed iff its error is
\* > accuracy.
C5_OneSolveAndCapIffNotConverged ==
    \A p \in Procs :
        (/\ args.npicard = 1
         /\ args.accuracy > 0 /\ args.accuracy < InitError
         /\ pc[p] = "commit") =>
            /\ k[p] = 1
            /\ error[p] # NaNv => (warned[p] <=> Greater(error[p], args.accuracy))

\* C6, as stated: at the start of every time step, the first included,
\* uh = uh1 = uh0; at the end of every step uh0 = uh1.
C6_AllEqualAtStepStart ==
    \A p \in Procs :
        /\ pc[p] = "picard" => (uh[p] = uh1[p] /\ uh1[p] = uh0[p])
        /\ (pc[p] = "loop" /\ timeline[p].current > 0) => uh0[p] = uh1[p]

\* C6, amended: at the start of every time step uh = uh0; uh1 = uh0 holds
\* there for every step but the first, where uh1 is still the zero field of
\* the constructor, and in every step once picard_iteration has run its
\* seeding uh1[:] = uh0; at the end of every step uh0 = uh1.
C6_EqualOnceSeeded ==
    \A p \in Procs :
        /\ pc[p] = "picard" =>
              /\ uh[p] = uh0[p]
              /\ timeline[p].current > 0 => uh1[p] = uh0[p]
              /\ timeline[p].current = 0 => uh1[p] = ZeroField
        /\ (pc[p] = "while" /\ k[p] = 0) => (uh[p] = uh1[p] /\ uh1[p] = uh0[p])
        /\ (pc[p] = "loop" /\ timeline[p].current > 0) => uh0[p] = uh1[p]

C6_Witness ==
    /\ pc[0] = "while" /\ k[0] = 0
    /\ timeline[0].current = 1
    /\ uh0[0] # InitialField
    /\ theta # 0

\* C7: the nan result of a failed solve is never accepted as converged,
\* never committed to uh0 and never put in a snapshot.
C7_FailedSolveNeverAccepted ==
    \A p \in Procs :
        /\ (pc[p] = "commit" /\ ~warned[p]) => ~IsNaN(uh1[p])
        /\ ~IsNaN(uh0[p])
        /\ \A j \in 1 .. Len(queue[p]) :
              queue[p][j].kind = "data" => ~IsNaN(queue[p][j].uh)

\* C8: when the Picard loop of a step that made a solve has ended, by
\* convergence or by the cap, uh1 is the solution of the last solve; the
\* run then commits it to uh0 and is back at the loop test for the next step.
C8_LastIterateAccepted ==
    \A p \in Procs :
        /\ (pc[p] = "commit" /\ k[p] > 0) => uh1[p] = sol[p]
        /\ (pc[p] = "loop" /\ timeline[p].current > 0 /\ k[p] > 0) =>
              (uh0[p] = sol[p] /\ uh1[p] = sol[p])
        /\ pc[p] \in {"run", "loop", "picard", "while", "body", "post",
                      "commit", "final", "done"}

C8_Witness ==
    /\ pc[0] = "picard"
    /\ timeline[0].current = 1
    /\ warned[0]
    /\ Greater(error[0], args.accuracy)
    /\ uh0[0] = sol[0]
    /\ uh0[0] # InitialField

\* C9: without a consumer nothing is put; with one, the sentinel is put
\* only by the finished run, whose timeline index is NT, it is the last
\* item and it is there exactly once.
C9_SentinelOnceAndLast ==
    \A p \in Procs :
        /\ ~hasqueue => queue[p] = <<>>
        /\ \A j \in 1 .. Len(queue[p]) :
              queue[p][j] = Sentinel =>
                  /\ j = Len(queue[p])
                  /\ pc[p] = "done"
                  /\ timeline[p].current = timeline[p].NT
        /\ (hasqueue /\ pc[p] = "done") =>
              /\ Len(Sentinels(p)) = 1
              /\ queue[p][Len(queue[p])] = Sentinel

C9_Witness ==
    /\ hasqueue
    /\ pc[0] = "done"
    /\ timeline[0].NT = 2
    /\ Len(Snapshots(0)) >= 2
    /\ queue[0][Len(queue[0])] = Sentinel

\* The dot product of a face normal with the sun direction, before the clamp.
Incidence(q, f) ==
    DotMN(normals[q][f], SunDirection(rot, sd, next_time_level(timeline[0])))

\* C10: every weight init_mu returns lies in [0, 1], and it is exactly 0
\* where the normal's dot product with the sun direction is <= 0.
C10_WeightsInUnitInterval ==
    pc[0] = "mu" =>
        \A q \in 1 .. NQ : \A f \in 1 .. NF :
            LET w == mu[0][q][f]
            IN  /\ w.den > 0
                /\ 0 <= w.num /\ w.num <= w.den
                /\ Incidence(q, f).num <= 0 => w.num = 0
                /\ Incidence(q, f).num > 0 => w = Incidence(q, f)

C10_Witness ==
    /\ pc[0] = "mu"
    /\ timeline[0].current >= 1
    /\ \E q \in 1 .. NQ : \E f \in 1 .. NF :
          Incidence(q, f).num < 0 /\ mu[0][q][f].num = 0
    /\ \E q \in 1 .. NQ : \E f \in 1 .. NF :
          mu[0][q][f].num > 0 /\ mu[0][q][f].num < mu[0][q][f].den

\* A participant that has left run(): by returning or by the exception.
Gone(p) == pc[p] \in {"done", "UnboundLocalError"}

\* C11: with P >= 2 participants, two participants that have ended the
\* Picard loop of the same time step have made the same number of
\* collective ctx.run calls in it, and no participant waits in ctx.run
\* for a participant that has left run() and will never enter it.
C11_CollectiveAlwaysJoined ==
    P >= 2 =>
        /\ \A p \in Procs : \A r \in Procs :
              (/\ pc[p] = "commit" /\ pc[r] = "commit"
               /\ timeline[p].current = timeline[r].current) => k[p] = k[r]
        /\ \A p \in Procs : pc[p] = "ctxrun" => \A r \in Procs : ~Gone(r)


\* C12: every snapshot run() puts is labelled with the number of time steps
\* completed when it is put and carries the field after that many steps
\* (times Tss), and no two snapshots of one run carry the same label.
C12_LabelIsStepCount ==
    [][\A p \in Procs :
          /\ \A j \in (Len(queue[p]) + 1) .. Len(queue'[p]) :
                queue'[p][j].kind = "data" =>
                    queue'[p][j] = Snapshot(timeline'[p].current,
                                            update_mesh_data(uh0'[p]))
          /\ \A a \in 1 .. Len(queue'[p]) : \A b \in 1 .. Len(queue'[p]) :
                (/\ a # b
                 /\ queue'[p][a].kind = "data"
                 /\ queue'[p][b].kind = "data")
                    => queue'[p][a].name # queue'[p][b].name]_vars


\* C13: with a consumer that takes items arbitrarily later than they are
\* put, the field the consumer reads from a snapshot is the field the
\* snapshot had when it was put; a later update_mesh_data does not change it
\* (stated for runs whose solves have not failed).
C13_ConsumerReadsFieldAsPut ==
    \A p \in Procs :
        (/\ consumer[p].n > 0
         /\ queue[p][consumer[p].n].kind = "data"
         /\ ~IsNaN(nodedata[p]))
            => consumer[p].uh = queue[p][consumer[p].n].uh


\* A participant that is inside a time step of run()'s loop.
InStep(p) ==
    pc[p] \in {"picard", "while", "body", "ctxrun", "assign", "post", "commit"}

\* C14: run() always terminates, whatever NT >= 0, npicard >= 1, accuracy
\* and the errors of the solves are: a participant makes at most npicard
\* solves in a step, the step it is in is the one the timeline index names
\* and lies below NT, a participant that has left run() has made exactly NT
\* steps, and as long as some participant has not returned from run() some
\* participant can take a step (one that is about to assemble the system,
\* line 120, always can).
C14_RunTerminatesAfterNTSteps ==
    /\ \A p \in Procs : k[p] <= args.npicard
    /\ \A p \in Procs :
          InStep(p) => /\ i[p] = timeline[p].current
                       /\ timeline[p].current < timeline[p].NT
    /\ \A p \in Procs : pc[p] = "done" => timeline[p].current = timeline[p].NT
    /\ \/ \A p \in Procs : pc[p] = "done"
       \/ \E p \in Procs : pc[p] = "body"
       \/ ENABLED NextDist


\* C15: in every Picard iteration the reaction matrix is linearized at the
\* latest iterate (uh0 in iteration 0, the solution of the iteration before
\* otherwise), the system solved is (M + dt*(S + R)) x = M*uh0 + dt*b with
\* the uh0 of the step, the trial value becomes its solution, and the error
\* recorded is the largest absolute difference between the solution and the
\* iterate the matrix was linearized at.
C15_LinearizedAtLatestIterate ==
    \A p \in Procs :
        /\ (pc[p] = "body" /\ k[p] > 0) => (uh[p] = sol[p] /\ uh1[p] = sol[p])
        /\ pc[p] = "post" =>
              /\ sys[p].lin = uh1[p]
              /\ k[p] = 0 => sys[p].lin = uh0[p]
              /\ sys[p].u0 = uh0[p]
              /\ sys[p].A = IF IsNaN(uh1[p]) THEN <<>>
                            ELSE [d \in Dofs |->
                                    M[d] + Dt * (S[d] + Reaction(uh1[p][d]))]
              /\ sys[p].Mu0 = IF IsNaN(uh0[p]) THEN <<>>
                              ELSE [d \in Dofs |-> M[d] * uh0[p][d]]
              /\ uh[p] = sol[p]
        /\ (pc[p] \in {"while", "commit"} /\ k[p] > 0) =>
              error[p] = MaxAbsDiff(sol[p], sys[p].lin)

\* The second iteration of a step, linearized at the solution of the first,
\* which is not the current level, and solved to yet another field.
C15_Witness ==
    /\ pc[0] = "post" /\ k[0] = 1
    /\ ~IsNaN(sys[0].lin) /\ ~IsNaN(sol[0])
    /\ sys[0].lin # uh0[0]
    /\ sol[0] # sys[0].lin


\* C16: no step of a run modifies the stored stiffness matrix S or the
\* stored mass matrix M (R *= dt and R += M act on the matrix the assembler
\* returned, which is neither), and uh0 is not modified from the start of a
\* step's Picard loop until the commit uh0[:] = uh1.
C16_StoredMatricesAndCurrentKept ==
    [][/\ S' = S
       /\ M' = M
       /\ \A p \in Procs :
             (InStep(p) /\ pc[p] # "commit") => uh0'[p] = uh0[p]]_vars

\* The second step's Picard loop has made two solves and moved away from
\* uh0, with the stored matrices as the constructor left them.
C16_Witness ==
    /\ pc[0] = "commit" /\ k[0] = 2
    /\ timeline[0].current = 1
    /\ sys[0].A # <<>>
    /\ uh1[0] # uh0[0]
    /\ S = stiff_matrix /\ M = mass_matrix


\* The weights of the illumination at time level t.
WeightsAt(t) ==
    [q \in 1 .. NQ |-> [f \in 1 .. NF |->
        Clamp(DotMN(normals[q][f], SunDirection(rot, sd, t)))]]

\* C17: within time step n (the index i read at line 181) every Picard
\* iteration computes the sun direction and the illumination at the time
\* level n + 1, the same for all iterations of the step, and the timeline
\* index stays n until the step's Picard loop has ended.
C17_EveryIterationAtNextLevel ==
    \A p \in Procs :
        /\ InStep(p) => timeline[p].current = i[p]
        /\ (\/ pc[p] \in {"ctxrun", "assign", "post"}
            \/ (pc[p] \in {"while", "body", "commit"} /\ k[p] > 0)) =>
              /\ sys[p].t = i[p] + 1
              /\ mu[p] = WeightsAt(i[p] + 1)
              /\ sys[p].mu = mu[p]

\* The second iteration of the second step: its weights are those of level
\* 2, which are not those of level 1, the index the timeline has there.
C17_Witness ==
    /\ pc[0] = "post" /\ k[0] = 1
    /\ timeline[0].current = 1
    /\ mu[0] = WeightsAt(2)
    /\ WeightsAt(2) # WeightsAt(1)

====
